---- MODULE Spec2Model ----
(***************************************************************************)
(* Model of docs/source/conf.py of cmelnulabs/compi: the Sphinx           *)
(* configuration file.  The file is a straight-line Python module: twelve  *)
(* assignments of literals to module-level names and one import.  A load   *)
(* executes the statements in file order in a fresh namespace; the         *)
(* consuming tool then reads the recognized names from that namespace      *)
(* until the build ends.                                                   *)
(*                                                                         *)
(* Python values are tagged with their Python type, so that a string, a    *)
(* list holding one string, an int and a bool are all different values.    *)
(* A dict literal is the sequence of its (key, value) entries in source    *)
(* order, each key being a tagged value itself.                            *)
(***************************************************************************)
EXTENDS Integers, Sequences, FiniteSets, TLC

VARIABLES pc, failed, ns, installed, results, lastRead

vars == <<pc, failed, ns, installed, results, lastRead>>

\* Number of loads (builds) of the file one behaviour goes through.
MaxLoads == 3

-----------------------------------------------------------------------------
(* Python values *)

PyStr(s) == [type |-> "str", val |-> s]
PyInt(i) == [type |-> "int", val |-> i]
PyBool(b) == [type |-> "bool", val |-> b]
PyList(elems) == [type |-> "list", val |-> elems]
PyDict(entries) == [type |-> "dict", val |-> entries]
PyModule(m) == [type |-> "module", val |-> m]

\* Python's == on the values above: values of different types are unequal,
\* containers are compared element by element.
ElemEq(a, b) == a.type = b.type /\ a.val = b.val

EntriesEq(x, y) ==
    /\ Len(x) = Len(y)
    /\ \A i \in 1..Len(x) : ElemEq(x[i][1], y[i][1]) /\ ElemEq(x[i][2], y[i][2])

ValEq(a, b) ==
    /\ a.type = b.type
    /\ IF a.type = "list"
       THEN /\ Len(a.val) = Len(b.val)
            /\ \A i \in 1..Len(a.val) : ElemEq(a.val[i], b.val[i])
       ELSE IF a.type = "dict"
       THEN EntriesEq(a.val, b.val)
       ELSE a.val = b.val

\* Two namespaces bind the same names to equal values.
NsEq(m, n) ==
    /\ DOMAIN m = DOMAIN n
    /\ \A k \in DOMAIN m : ValEq(m[k], n[k])

\* key in d and d[key] for a dict d and a string key: the value is that of
\* the last entry with the key (a later entry of a literal overrides).

HasKey(d, key) == \E i \in 1..Len(d.val) : ElemEq(d.val[i][1], PyStr(key))

Get(d, key) ==
    LET hits == {i \in 1..Len(d.val) : ElemEq(d.val[i][1], PyStr(key))}
        last == CHOOSE i \in hits : \A j \in hits : j <= i
    IN  d.val[last][2]

-----------------------------------------------------------------------------
(* The right-hand sides of conf.py.  A definition whose name extends one   *)
(* of them is a faulty variant of it, used to show that a property depends *)
(* on the statement.                                                       *)

project == PyStr("compi")

\* copyright computed from the clock of the load instead of a literal.
copyright_from_clock ==
    PyStr(IF Len(results) = 0 THEN "2025, cmelnu" ELSE "2026, cmelnu")

copyright == PyStr("2025, cmelnu")

author == PyStr("cmelnu")

\* extensions given as a bare string instead of a list.
extensions_bare_string == PyStr("sphinx_rtd_theme")

extensions == PyList(<<>>)

templates_path == PyList(<<PyStr("_templates")>>)

\* the build directory excluded, as sphinx-quickstart generates it.
exclude_patterns_build == PyList(<<PyStr("_build")>>)

exclude_patterns == PyList(<<>>)

html_theme == PyStr("sphinx_rtd_theme")

\* navigation_depth -1, the theme's "unlimited" setting.
html_theme_options_unlimited ==
    PyDict(<< <<PyStr("navigation_depth"), PyInt(-1)>>,
            <<PyStr("collapse_navigation"), PyBool(FALSE)>>,
            <<PyStr("sticky_navigation"), PyBool(TRUE)>>,
            <<PyStr("includehidden"), PyBool(TRUE)>>,
            <<PyStr("titles_only"), PyBool(FALSE)>>,
            <<PyStr("style_nav_header_background"), PyStr("#2980B9")>> >>)

html_theme_options ==
    PyDict(<< <<PyStr("navigation_depth"), PyInt(5)>>,
            <<PyStr("collapse_navigation"), PyBool(FALSE)>>,
            <<PyStr("sticky_navigation"), PyBool(TRUE)>>,
            <<PyStr("includehidden"), PyBool(TRUE)>>,
            <<PyStr("titles_only"), PyBool(FALSE)>>,
            <<PyStr("style_nav_header_background"), PyStr("#2980B9")>> >>)

html_static_path == PyList(<<PyStr("_static")>>)

html_css_files == PyList(<<PyStr("custom.css")>>)

\* the branch left empty.
html_context_no_branch ==
    PyDict(<< <<PyStr("display_github"), PyBool(TRUE)>>,
            <<PyStr("github_user"), PyStr("cmelnu")>>,
            <<PyStr("github_repo"), PyStr("compi")>>,
            <<PyStr("github_version"), PyStr("")>>,
            <<PyStr("conf_py_path"), PyStr("/docs/source/")>> >>)

\* display_github given as the string 'True'.
html_context_quoted_flag ==
    PyDict(<< <<PyStr("display_github"), PyStr("True")>>,
            <<PyStr("github_user"), PyStr("cmelnu")>>,
            <<PyStr("github_repo"), PyStr("compi")>>,
            <<PyStr("github_version"), PyStr("main")>>,
            <<PyStr("conf_py_path"), PyStr("/docs/source/")>> >>)

html_context ==
    PyDict(<< <<PyStr("display_github"), PyBool(TRUE)>>,
            <<PyStr("github_user"), PyStr("cmelnu")>>,
            <<PyStr("github_repo"), PyStr("compi")>>,
            <<PyStr("github_version"), PyStr("main")>>,
            <<PyStr("conf_py_path"), PyStr("/docs/source/")>> >>)

pygments_style == PyStr("monokai")

-----------------------------------------------------------------------------
(* The statements of the file, in file order *)

Assign(line, name, value) ==
    [kind |-> "assign", line |-> line, name |-> name, value |-> value]

Import(line, name) ==
    [kind |-> "import", line |-> line, name |-> name, value |-> PyModule(name)]

\* The file with the import moved to the top of the file.
Program_import_first ==
    << Import(1, "sphinx_rtd_theme"),
       Assign(9, "project", project),
       Assign(10, "copyright", copyright),
       Assign(11, "author", author),
       Assign(16, "extensions", extensions),
       Assign(18, "templates_path", templates_path),
       Assign(19, "exclude_patterns", exclude_patterns),
       Assign(27, "html_theme", html_theme),
       Assign(28, "html_theme_options", html_theme_options),
       Assign(38, "html_static_path", html_static_path),
       Assign(39, "html_css_files", html_css_files),
       Assign(44, "html_context", html_context),
       Assign(53, "pygments_style", pygments_style) >>

\* The file without its html_static_path line.
Program_no_static_path ==
    << Assign(9, "project", project),
       Assign(10, "copyright", copyright),
       Assign(11, "author", author),
       Assign(16, "extensions", extensions),
       Assign(18, "templates_path", templates_path),
       Assign(19, "exclude_patterns", exclude_patterns),
       Import(21, "sphinx_rtd_theme"),
       Assign(27, "html_theme", html_theme),
       Assign(28, "html_theme_options", html_theme_options),
       Assign(39, "html_css_files", html_css_files),
       Assign(44, "html_context", html_context),
       Assign(53, "pygments_style", pygments_style) >>

Program ==
    << Assign(9, "project", project),
       Assign(10, "copyright", copyright),
       Assign(11, "author", author),
       Assign(16, "extensions", extensions),
       Assign(18, "templates_path", templates_path),
       Assign(19, "exclude_patterns", exclude_patterns),
       Import(21, "sphinx_rtd_theme"),
       Assign(27, "html_theme", html_theme),
       Assign(28, "html_theme_options", html_theme_options),
       Assign(38, "html_static_path", html_static_path),
       Assign(39, "html_css_files", html_css_files),
       Assign(44, "html_context", html_context),
       Assign(53, "pygments_style", pygments_style) >>

\* The load is over one statement early.
EndOfFile_early(p) == p >= Len(Program)

\* pc p is past the last statement of the file.
EndOfFile(p) == p > Len(Program)

\* Executing a statement raises: only an import can, when the module is not
\* importable in the environment of the load.  Binding a literal cannot.
Raises(s) == s.kind = "import" /\ ~installed

\* Binding a module-level name: the name is added, or rebound when present.
Bind(n, name, value) ==
    [k \in DOMAIN n \cup {name} |-> IF k = name THEN value ELSE n[k]]

\* The namespace a load starts from.
EmptyNs == [k \in {} |-> PyStr("")]

\* Where the load is.
Phase ==
    IF failed THEN "error"
    ELSE IF EndOfFile(pc) THEN "loaded"
    ELSE "loading"

Loaded == Phase = "loaded"

\* The twelve names of the file the consuming tool recognizes.
Keys == {"project", "copyright", "author", "extensions", "templates_path",
         "exclude_patterns", "html_theme", "html_theme_options",
         "html_static_path", "html_css_files", "html_context",
         "pygments_style"}

NoRead == [key |-> "", found |-> FALSE, type |-> ""]

-----------------------------------------------------------------------------
(* Actions *)

Init ==
    /\ pc = 1
    /\ failed = FALSE
    /\ ns = EmptyNs
    /\ installed \in BOOLEAN
    /\ results = <<>>
    /\ lastRead = NoRead

\* The interpreter executes the next statement of the file.
Step ==
    /\ ~failed
    /\ pc <= Len(Program)
    /\ LET s == Program[pc] IN
       IF Raises(s)
       THEN /\ failed' = TRUE
            /\ UNCHANGED <<pc, ns>>
       ELSE /\ ns' = Bind(ns, s.name, s.value)
            /\ pc' = pc + 1
            /\ failed' = FALSE
    /\ UNCHANGED <<installed, results, lastRead>>

\* The consuming tool looks a recognized name up in the loaded namespace.
Read(k) ==
    /\ Loaded
    /\ lastRead' = [key |-> k,
                    found |-> k \in DOMAIN ns,
                    type |-> IF k \in DOMAIN ns THEN ns[k].type ELSE ""]
    /\ UNCHANGED <<pc, failed, ns, installed, results>>

\* The build ends (the namespace is discarded) and the file is loaded again,
\* from a fresh namespace, in an environment that may differ.
Reload ==
    /\ Phase \in {"loaded", "error"}
    /\ Len(results) < MaxLoads - 1
    /\ results' = Append(results, [outcome |-> Phase, ns |-> ns])
    /\ pc' = 1
    /\ failed' = FALSE
    /\ ns' = EmptyNs
    /\ installed' \in BOOLEAN
    /\ lastRead' = NoRead

Next ==
    \/ Step
    \/ \E k \in Keys : Read(k)
    \/ Reload

Spec == Init /\ [][Next]_vars

-----------------------------------------------------------------------------
(* Helpers of the properties *)

IsStr(v) == v.type = "str"

\* A list all of whose elements are strings (a bare string is not one).
IsListOfStr(v) ==
    /\ v.type = "list"
    /\ \A i \in 1..Len(v.val) : v.val[i].type = "str"

\* A dict all of whose keys are strings.
IsMapping(v) ==
    /\ v.type = "dict"
    /\ \A i \in 1..Len(v.val) : v.val[i][1].type = "str"

IsNonEmptyStr(v) == v.type = "str" /\ v.val # ""

\* Python truth value of a value (bool(v)).
Truthy(v) ==
    IF v.type = "bool" THEN v.val
    ELSE IF v.type = "int" THEN v.val # 0
    ELSE IF v.type = "str" THEN v.val # ""
    ELSE IF v.type \in {"list", "dict"} THEN Len(v.val) > 0
    ELSE TRUE

\* The (key, type of value) pairs of a dict with string keys.
Shape(d) == {<<d.val[i][1].val, d.val[i][2].type>> : i \in 1..Len(d.val)}

\* A dict has exactly the given (key, type) entries, each key once.
HasShape(v, shape) ==
    /\ IsMapping(v)
    /\ Shape(v) = shape
    /\ Len(v.val) = Cardinality(shape)

StrKeys == {"project", "copyright", "author", "html_theme", "pygments_style"}

ListKeys == {"extensions", "templates_path", "exclude_patterns",
             "html_static_path", "html_css_files"}

MapKeys == {"html_theme_options", "html_context"}

\* The names bound by the statements above line 21.
BoundBeforeImport == {"project", "copyright", "author", "extensions",
                      "templates_path", "exclude_patterns"}

-----------------------------------------------------------------------------
(* Properties *)

\* C1: after the file is loaded, each of the twelve recognized names is bound
\* to a value of the type the interface table gives: five strings, five lists
\* whose elements are all strings (never a bare string), two dicts with string
\* keys.
C1_TypesMatchTable ==
    Loaded =>
        /\ \A k \in StrKeys : k \in DOMAIN ns /\ IsStr(ns[k])
        /\ \A k \in ListKeys : k \in DOMAIN ns /\ IsListOfStr(ns[k])
        /\ \A k \in MapKeys : k \in DOMAIN ns /\ IsMapping(ns[k])

\* C1 witness: the tool has read extensions from a loaded configuration and
\* found a list.
C1_Witness ==
    Loaded /\ lastRead.key = "extensions" /\ lastRead.found /\ lastRead.type = "list"

\* C2: in the loaded configuration, html_context['display_github'] being true
\* implies that github_user, github_repo and github_version are present in
\* html_context and are non-empty strings.
C2_GithubLinkComplete ==
    (/\ Loaded
     /\ "html_context" \in DOMAIN ns
     /\ ns["html_context"].type = "dict"
     /\ HasKey(ns["html_context"], "display_github")
     /\ Truthy(Get(ns["html_context"], "display_github")))
    => \A k \in {"github_user", "github_repo", "github_version"} :
           /\ HasKey(ns["html_context"], k)
           /\ IsNonEmptyStr(Get(ns["html_context"], k))

\* C2 witness: a loaded configuration whose display_github is the bool True.
C2_Witness ==
    /\ Loaded
    /\ "html_context" \in DOMAIN ns
    /\ HasKey(ns["html_context"], "display_github")
    /\ ElemEq(Get(ns["html_context"], "display_github"), PyBool(TRUE))

\* C3: every completed load of the file yields the same namespace: the
\* result of a load equals the result of every earlier load, whatever the
\* earlier loads left behind.
C3_LoadsAgree ==
    LET done == {i \in 1..Len(results) : results[i].outcome = "loaded"} IN
    /\ \A i, j \in done : NsEq(results[i].ns, results[j].ns)
    /\ Loaded => \A i \in done : NsEq(results[i].ns, ns)

\* C3 witness: a second load has completed after a first completed load.
C3_Witness ==
    Loaded /\ Len(results) >= 1 /\ results[1].outcome = "loaded"

C5_NoErrorPath == Phase # "error"

\* C5 amended: the import at line 21 is the only statement that can fail.  A
\* load ends in error only there, only when sphinx_rtd_theme is not
\* importable, and with exactly the six names above line 21 bound; every
\* other statement of an unfinished load can execute, so with the module
\* importable the load runs to the loaded state.
C5_OnlyImportFails ==
    /\ Phase = "error" =>
           /\ ~installed
           /\ pc \in 1..Len(Program)
           /\ Program[pc].kind = "import"
           /\ Program[pc].line = 21
           /\ DOMAIN ns = BoundBeforeImport
    /\ installed => Phase # "error"
    /\ Phase = "loading" => ENABLED Step

\* C5 witness: a load has failed at the import.
C5_Witness == Phase = "error" /\ ~installed /\ "exclude_patterns" \in DOMAIN ns

\* C6: on load, every one of the twelve recognized names is bound.
C6_AllKeysPresent == Loaded => Keys \subseteq DOMAIN ns

\* C6 witness: a loaded namespace holding the twelve names and the module.
C6_Witness == Loaded /\ Cardinality(DOMAIN ns) = Cardinality(Keys) + 1

\* C7: in the loaded configuration html_theme_options['navigation_depth'] is
\* an int, greater than zero, and equal to 5.
C7_NavigationDepth ==
    Loaded =>
        /\ "html_theme_options" \in DOMAIN ns
        /\ ns["html_theme_options"].type = "dict"
        /\ HasKey(ns["html_theme_options"], "navigation_depth")
        /\ LET d == Get(ns["html_theme_options"], "navigation_depth") IN
           d.type = "int" /\ d.val > 0 /\ d.val = 5

\* C7 witness: the tool has read html_theme_options from a loaded
\* configuration.
C7_Witness ==
    Loaded /\ lastRead.key = "html_theme_options" /\ lastRead.type = "dict"

\* C8: html_theme_options and html_context hold exactly the entries of the
\* interface table, each with a value of the listed type.
C8_NestedShapes ==
    Loaded =>
        /\ "html_theme_options" \in DOMAIN ns
        /\ HasShape(ns["html_theme_options"],
                    {<<"navigation_depth", "int">>,
                     <<"collapse_navigation", "bool">>,
                     <<"sticky_navigation", "bool">>,
                     <<"includehidden", "bool">>,
                     <<"titles_only", "bool">>,
                     <<"style_nav_header_background", "str">>})
        /\ "html_context" \in DOMAIN ns
        /\ HasShape(ns["html_context"],
                    {<<"display_github", "bool">>,
                     <<"github_user", "str">>,
                     <<"github_repo", "str">>,
                     <<"github_version", "str">>,
                     <<"conf_py_path", "str">>})

\* C8 witness: a loaded configuration in which both dicts are bound.
C8_Witness ==
    /\ Loaded
    /\ MapKeys \subseteq DOMAIN ns
    /\ \A k \in MapKeys : ns[k].type = "dict" /\ Len(ns[k].val) > 0

\* C9: in the loaded configuration extensions and exclude_patterns are empty
\* lists, while html_theme is 'sphinx_rtd_theme' and that module is imported.
C9_NoExtensionsNoExcludes ==
    Loaded =>
        /\ \A k \in {"extensions", "exclude_patterns"} :
               k \in DOMAIN ns /\ ns[k].type = "list" /\ Len(ns[k].val) = 0
        /\ "html_theme" \in DOMAIN ns
        /\ ElemEq(ns["html_theme"], PyStr("sphinx_rtd_theme"))
        /\ "sphinx_rtd_theme" \in DOMAIN ns
        /\ ns["sphinx_rtd_theme"].type = "module"

\* C9 witness: a loaded configuration with the theme selected and imported.
C9_Witness ==
    /\ Loaded
    /\ installed
    /\ "sphinx_rtd_theme" \in DOMAIN ns
    /\ lastRead.key = "html_theme"

====
